---- MODULE Spec2Model ----
(***************************************************************************)
(* Model of arbitime (src/src/lib.rs): the macros time!, format_time! and  *)
(* log_time!, expanded at a call site and executed one statement at a      *)
(* time against a monotonic clock and the process's stderr.                *)
(***************************************************************************)
EXTENDS Integers, Sequences, FiniteSets, TLC

(* ------------------------------ bounds -------------------------------- *)

\* Largest number of `msg => body` pairs in one format_time!/log_time! call.
MaxPairs == 2

\* Number of distinct later instants the clock can move to.
MaxInstant == 1

\* log_time! calls start only while stderr holds fewer lines than this.
MaxLines == 2

\* Labels ($msg), the values a body can produce and the payloads it can
\* panic with.
Labels == {"A", "B"}
Values == {1, 2}
Payloads == {3}

(* ----------------------------- the clock ------------------------------ *)

\* The k-th instant the clock can show, in nanoseconds since the first one.
\* The instants are spread over the µs, ms and s scales.
Nanos(k) == IF k = 0 THEN 0 ELSE 1150 ^ k

Instants == {Nanos(k) : k \in 0..MaxInstant}

(* ------------------- Duration's Debug rendering ({:?}) ---------------- *)

RECURSIVE NumDigits(_)
NumDigits(n) == IF n < 10 THEN 1 ELSE 1 + NumDigits(n \div 10)

RECURSIVE Zeros(_)
Zeros(n) == IF n <= 0 THEN "" ELSE "0" \o Zeros(n - 1)

\* The fractional part `frac` of `width` decimal digits: leading zeros kept,
\* trailing zeros dropped, nothing at all (no point either) when it is zero.
RECURSIVE FracStr(_, _)
FracStr(frac, width) ==
    IF frac = 0 THEN ""
    ELSE IF frac % 10 = 0 THEN FracStr(frac \div 10, width - 1)
    ELSE "." \o Zeros(width - NumDigits(frac)) \o ToString(frac)

NANOS_PER_SEC == 1000000000
NANOS_PER_MILLI == 1000000
NANOS_PER_MICRO == 1000

\* format!("{:?}", duration) for a duration of d nanoseconds.
Render(d) ==
    IF d >= NANOS_PER_SEC
    THEN ToString(d \div NANOS_PER_SEC) \o FracStr(d % NANOS_PER_SEC, 9) \o "s"
    ELSE IF d >= NANOS_PER_MILLI
    THEN ToString(d \div NANOS_PER_MILLI) \o FracStr(d % NANOS_PER_MILLI, 6) \o "ms"
    ELSE IF d >= NANOS_PER_MICRO
    THEN ToString(d \div NANOS_PER_MICRO) \o FracStr(d % NANOS_PER_MICRO, 3) \o "µs"
    ELSE ToString(d) \o "ns"

(* ----------------------------- the inputs ----------------------------- *)

\* A body either produces the value `out` or panics with payload `out`.
Comps == [out : Values, panics : {FALSE}] \cup [out : Payloads, panics : {TRUE}]

Pairs == [label : Labels, comp : Comps]

\* A bare body (no `msg =>`) carries no label.
BarePairs == [label : {""}, comp : Comps]

LabeledInputs == UNION {[1..n -> Pairs] : n \in 1..MaxPairs}

BareInputs == [1..1 -> BarePairs]

(* ------------------------------ the state ----------------------------- *)

VARIABLES
    clock,     \* what Instant::now() would return, in nanoseconds
    stderr,    \* the lines eprintln! has written, oldest first
    pc,        \* the statement of the expanded macro that runs next
    macro,     \* "time", "format_time" or "log_time": the macro called
    bare,      \* TRUE when the call has no `msg =>` (last arm of format_time!)
    pairs,     \* the call's `msg => body` pairs, in source order
    rep,       \* the repetition of $( ... );+ being executed
    start,     \* __start
    result,    \* __result, <<>> until the body has produced it
    timed,     \* the value of time!: <<__duration, __result>>
    fmt,       \* the value of format_time!: the (message, result) pairs it
               \* evaluated to, in order
    ret,       \* what the called macro evaluated to, <<>> until then: timed
               \* for time!, fmt for format_time!, the results for log_time!
    failure,   \* the payload of the panic that unwound the call, as <<p>>
    trace,     \* what the call has done so far: clock reads, bodies run, lines
    stderr0    \* stderr as it was when the call started

vars == <<clock, stderr, pc, macro, bare, pairs, rep, start, result, timed,
          fmt, ret, failure, trace, stderr0>>

None == <<>>

Event(e, k, t) == [ev |-> e, idx |-> k, t |-> t]

Init ==
    /\ clock = 0
    /\ stderr = <<>>
    /\ pc = "idle"
    /\ macro = "none"
    /\ bare = FALSE
    /\ pairs = <<>>
    /\ rep = 0
    /\ start = 0
    /\ result = None
    /\ timed = None
    /\ fmt = None
    /\ ret = None
    /\ failure = None
    /\ trace = <<>>
    /\ stderr0 = <<>>

(* ----------------------------- the actions ---------------------------- *)

\* Time passes: the monotonic clock moves to a later instant.
Tick ==
    /\ \E t \in Instants : t > clock /\ clock' = t
    /\ UNCHANGED <<stderr, pc, macro, bare, pairs, rep, start, result, timed,
                   fmt, ret, failure, trace, stderr0>>

\* The repetition $( ... );+ expands its k-th copy from the k-th input pair.
RepOrderReversed(n, k) == n + 1 - k

RepOrder(n, k) == k

\* The input pair the current repetition was expanded from.
Cur == RepOrder(Len(pairs), rep)

Enter(m, b, ps) ==
    /\ pc = "idle"
    /\ macro' = m
    /\ bare' = b
    /\ pairs' = ps
    /\ rep' = 1
    /\ pc' = "now"
    /\ stderr0' = stderr
    /\ UNCHANGED <<clock, stderr, start, result, timed, fmt, ret, failure, trace>>

\* time! { body }
CallTime == \E ps \in BareInputs : Enter("time", TRUE, ps)

\* format_time! { body }, format_time!(msg => body, ...)
CallFormatTime ==
    \/ \E ps \in BareInputs : Enter("format_time", TRUE, ps)
    \/ \E ps \in LabeledInputs : Enter("format_time", FALSE, ps)

\* log_time! { body }, log_time!(msg => body, ...)
CallLogTime ==
    /\ Len(stderr) < MaxLines
    /\ \/ \E ps \in BareInputs : Enter("log_time", TRUE, ps)
       \/ \E ps \in LabeledInputs : Enter("log_time", FALSE, ps)

\* let __start = std::time::Instant::now();
Now ==
    /\ pc = "now"
    /\ start' = clock
    /\ trace' = Append(trace, Event("now", Cur, clock))
    /\ pc' = "body"
    /\ UNCHANGED <<clock, stderr, macro, bare, pairs, rep, result, timed, fmt,
                   ret, failure, stderr0>>

\* let __result = { body };  when the body panics, nothing in the macros
\* catches it: the call unwinds and its locals are dropped.
PanicCaught(p) ==
    /\ result' = <<p>>
    /\ pc' = "elapsed"
    /\ UNCHANGED <<failure, timed, fmt, stderr>>

PanicTruncates(p) ==
    /\ failure' = <<p>>
    /\ result' = None
    /\ timed' = None
    /\ fmt' = None
    /\ pc' = "unwound"
    /\ stderr' = <<>>

Panic(p) ==
    /\ failure' = <<p>>
    /\ result' = None
    /\ timed' = None
    /\ fmt' = None
    /\ pc' = "unwound"
    /\ stderr' = stderr

Body ==
    /\ pc = "body"
    /\ trace' = Append(trace, Event("eval", Cur, clock))
    /\ IF pairs[Cur].comp.panics
       THEN Panic(pairs[Cur].comp.out)
       ELSE /\ result' = <<pairs[Cur].comp.out>>
            /\ pc' = "elapsed"
            /\ UNCHANGED <<failure, timed, fmt, stderr>>
    /\ UNCHANGED <<clock, macro, bare, pairs, rep, start, ret, stderr0>>

\* __start.elapsed(): the clock read now, minus __start.
ElapsedSwapped(s, now) == s - now

Elapsed(s, now) == now - s

\* (__duration, __result)
TimeTupleDefault(d, r) == <<d, 0>>

TimeTuple(d, r) == <<d, r>>

\* let __duration = __start.elapsed(); (__duration, __result)
TimeEnd ==
    /\ pc = "elapsed"
    /\ trace' = Append(trace, Event("elapsed", Cur, clock))
    /\ timed' = TimeTuple(Elapsed(start, clock), result[1])
    /\ IF macro = "time"
       THEN /\ ret' = timed'
            /\ pc' = "done"
       ELSE /\ ret' = ret
            /\ pc' = "format"
    /\ UNCHANGED <<clock, stderr, macro, bare, pairs, rep, start, result, fmt,
                   failure, stderr0>>

\* format!("{} - Execution time: {:?}", $msg, duration)
FormatLabeledNoLabel(msg, d) == "Execution time: " \o Render(d)

FormatLabeled(msg, d) == msg \o " - Execution time: " \o Render(d)

\* format!("Execution time: {:?}", duration)
FormatBare(d) == "Execution time: " \o Render(d)

\* $( ... );+ : another copy of the block follows the k-th of n.
OnlyFirstRepetition(n, k) == FALSE

MoreRepetitions(n, k) == k < n

\* let (duration, result) = $crate::time!(...); (format!(...), result)
\* is the value of the current repetition's block.  The repetitions are
\* separated by `;`: the value of every block but the last is dropped, and
\* the value of format_time! is the value of the last block alone.
Format ==
    /\ pc = "format"
    /\ trace' = Append(trace, Event("format", Cur, clock))
    /\ LET message == IF bare THEN FormatBare(timed[1])
                      ELSE FormatLabeled(pairs[Cur].label, timed[1])
           block == <<message, timed[2]>>
       IN IF MoreRepetitions(Len(pairs), rep)
          THEN /\ rep' = rep + 1
               /\ pc' = "now"
               /\ UNCHANGED <<fmt, ret>>
          ELSE /\ fmt' = <<block>>
               /\ rep' = rep
               /\ IF macro = "format_time"
                  THEN ret' = fmt' /\ pc' = "done"
                  ELSE ret' = ret /\ pc' = "eprintln"
    /\ UNCHANGED <<clock, stderr, macro, bare, pairs, start, result, timed,
                   failure, stderr0>>

\* let (msg, result) = $crate::format_time!(...); ...; result
ResultsDefault(f) == [k \in DOMAIN f |-> 0]

Results(f) == [k \in DOMAIN f |-> f[k][2]]

\* let (msg, result) = $crate::format_time!(...); eprintln!("{}", msg); result
Eprintln ==
    /\ pc = "eprintln"
    /\ stderr' = Append(stderr, fmt[1][1])
    /\ trace' = Append(trace, Event("eprintln", Cur, clock))
    /\ ret' = Results(fmt)
    /\ pc' = "done"
    /\ UNCHANGED <<clock, macro, bare, pairs, rep, start, result, timed, fmt,
                   failure, stderr0>>

\* The caller takes the value (or the panic) and goes on; nothing of the
\* call is kept but what it wrote to stderr.
Finish ==
    /\ pc \in {"done", "unwound"}
    /\ pc' = "idle"
    /\ macro' = "none"
    /\ bare' = FALSE
    /\ pairs' = <<>>
    /\ rep' = 0
    /\ start' = 0
    /\ result' = None
    /\ timed' = None
    /\ fmt' = None
    /\ ret' = None
    /\ failure' = None
    /\ trace' = <<>>
    /\ stderr0' = stderr
    /\ UNCHANGED <<clock, stderr>>

Next ==
    \/ Tick
    \/ CallTime
    \/ CallFormatTime
    \/ CallLogTime
    \/ Now
    \/ Body
    \/ TimeEnd
    \/ Format
    \/ Eprintln
    \/ Finish

Spec == Init /\ [][Next]_vars

TypeOK ==
    /\ clock \in Instants
    /\ pc \in {"idle", "now", "body", "elapsed", "format", "eprintln", "done", "unwound"}
    /\ Len(stderr) <= MaxLines

(* --------------------------- reading the trace ------------------------ *)

\* Positions of the trace where the call did `e` for input pair k.
At(e, k) == {p \in DOMAIN trace : trace[p].ev = e /\ trace[p].idx = k}

Times(e, k) == Cardinality(At(e, k))

\* The clock reading the call took when it did `e` for input pair k.
Reading(e, k) == trace[CHOOSE p \in At(e, k) : TRUE].t

\* The interval the timer measured for input pair k.
Measured(k) == Reading("elapsed", k) - Reading("now", k)

Returned == pc = "done"

(* ------------------------------- claims ------------------------------- *)

\* C1: when time! returns, the result component of the pair it returns is
\* the value its body produced in that call.
C1_TimeReturnsResult ==
    (Returned /\ macro = "time") =>
        /\ Len(ret) = 2
        /\ ret[2] = pairs[1].comp.out

C1_Witness ==
    /\ Returned /\ macro = "time"
    /\ pairs[1].comp.out = 2
    /\ ret[2] = 2

\* C2: the duration time! returns is the clock reading taken after the body
\* finished minus the reading taken before it started, the body ran between
\* the two readings, and the duration is never negative.
C2_DurationIsEndMinusStart ==
    (Returned /\ macro = "time") =>
        /\ [k \in DOMAIN trace |-> trace[k].ev] = <<"now", "eval", "elapsed">>
        /\ ret[1] = trace[3].t - trace[1].t
        /\ ret[1] >= 0

C2_Witness ==
    /\ Returned /\ macro = "time"
    /\ trace[3].t > trace[1].t
    /\ ret[1] = trace[3].t - trace[1].t

\* C3: when a time!, format_time! or log_time! call returns, every body it
\* was given has been evaluated exactly once.
C3_EvaluatedExactlyOnce ==
    Returned => \A k \in DOMAIN pairs : Times("eval", k) = 1

C3_Witness ==
    /\ Returned /\ macro = "log_time"
    /\ Len(pairs) = 2
    /\ \A k \in DOMAIN pairs : Times("eval", k) = 1

\* C4: format_time! on a bare body returns "Execution time: <d>" and on a
\* single `label => body` returns "<label> - Execution time: <d>", d being
\* the rendering of the duration measured for that body in that call, paired
\* with the body's value.
C4_MessageFormat ==
    (Returned /\ macro = "format_time" /\ Len(pairs) = 1) =>
        /\ Len(ret) = 1
        /\ ret[1][2] = pairs[1].comp.out
        /\ bare => ret[1][1] = "Execution time: " \o Render(Measured(1))
        /\ ~bare => ret[1][1] =
              pairs[1].label \o " - Execution time: " \o Render(Measured(1))

C4_Witness ==
    /\ Returned /\ macro = "format_time" /\ Len(pairs) = 1 /\ ~bare
    /\ Measured(1) = 1150
    /\ ret[1][1] = pairs[1].label \o " - Execution time: 1.15µs"

\* C5: format_time! on N labeled bodies returns N (message, result) pairs in
\* input order, the i-th made of the i-th label, the i-th measured duration
\* and the i-th body's value.
C5_FormatReturnsAllPairs ==
    (Returned /\ macro = "format_time" /\ ~bare) =>
        /\ Len(ret) = Len(pairs)
        /\ \A k \in DOMAIN pairs :
              ret[k] = <<pairs[k].label \o " - Execution time: "
                           \o Render(Measured(k)),
                         pairs[k].comp.out>>

\* C6: a log_time! call that returns has appended to stderr one line per
\* body it evaluated, each that body's message, in evaluation order.
C6_OneLinePerComputation ==
    (Returned /\ macro = "log_time" /\ ~bare) =>
        stderr = stderr0 \o
                 [k \in DOMAIN pairs |->
                     pairs[k].label \o " - Execution time: "
                        \o Render(Measured(k))]

\* What format_time! and log_time! both hand back for the bodies of a call:
\* the result portion of format_time!'s value.
ResultPortion == IF macro = "log_time" THEN ret ELSE [k \in DOMAIN ret |-> ret[k][2]]

\* C7: log_time! returns the result portion of what format_time! evaluated
\* to for the same input, which is what a format_time! call on that input
\* returns; log_time! differs only in having appended to stderr.
C7_LogReturnsFormatResults ==
    (Returned /\ macro \in {"format_time", "log_time"}) =>
        /\ ResultPortion = [k \in DOMAIN fmt |-> fmt[k][2]]
        /\ ResultPortion = <<pairs[Len(pairs)].comp.out>>
        /\ macro = "format_time" => ret = fmt /\ stderr = stderr0
        /\ macro = "log_time" =>
              /\ Len(stderr) > Len(stderr0)
              /\ SubSeq(stderr, 1, Len(stderr0)) = stderr0

C7_Witness ==
    /\ Returned /\ macro = "log_time"
    /\ Len(pairs) = 2
    /\ pairs[1].comp.out = 1
    /\ ret = <<2>>
    /\ fmt[1][2] = 2
    /\ Len(stderr) = Len(stderr0) + 1

\* C8: in a multi-pair call the bodies run one after the other in input
\* order: whenever the start timestamp of pair j is read, every earlier
\* pair i has already been evaluated and had its end timestamp read, at a
\* reading no later than j's start; the call's steps never go back to an
\* earlier pair.
C8_SequentialInOrder ==
    /\ \A p, q \in DOMAIN trace :
          p < q => trace[p].idx <= trace[q].idx /\ trace[p].t <= trace[q].t
    /\ \A q \in DOMAIN trace :
          trace[q].ev = "now" =>
             \A i \in 1..(trace[q].idx - 1) :
                \E a, b \in 1..(q - 1) :
                   /\ a < b
                   /\ trace[a].ev = "eval" /\ trace[a].idx = i
                   /\ trace[b].ev = "elapsed" /\ trace[b].idx = i
                   /\ trace[b].t <= trace[q].t

C8_Witness ==
    /\ Returned /\ macro = "format_time"
    /\ Len(pairs) = 2
    /\ Reading("elapsed", 1) > Reading("now", 1)
    /\ Reading("now", 2) >= Reading("elapsed", 1)
    /\ At("eval", 1) = {2} /\ At("eval", 2) = {6}

\* The bodies of the call that have been run and panicked.
Panicked == {k \in DOMAIN pairs : Times("eval", k) > 0 /\ pairs[k].comp.panics}

\* C9: once a body has panicked, the call has unwound with that body's
\* panic: the body is not run again, nothing runs after it, and there is no
\* duration, message, result or stderr line for it.
C9_FailurePropagates ==
    \A k \in Panicked :
        /\ pc = "unwound"
        /\ failure = <<pairs[k].comp.out>>
        /\ Times("eval", k) = 1
        /\ trace[Len(trace)] = Event("eval", k, trace[Len(trace)].t)
        /\ Times("elapsed", k) = 0
        /\ Times("format", k) = 0
        /\ Times("eprintln", k) = 0
        /\ timed = None /\ fmt = None /\ ret = None

C9_Witness ==
    /\ pc = "unwound" /\ macro = "log_time"
    /\ Panicked = {1}
    /\ failure = <<3>>
    /\ ret = None

\* C10: when body k of a multi-pair log_time! call panics, no line is
\* written for k or any later body, no later body is evaluated, and the
\* step that fails and the unwound call leave stderr as it was.
C10_State ==
    (macro = "log_time" /\ Len(pairs) >= 2) =>
        \A k \in Panicked :
            /\ \A j \in k..Len(pairs) : Times("eprintln", j) = 0
            /\ \A j \in (k + 1)..Len(pairs) : Times("eval", j) = 0
            /\ pc = "unwound"

C10_Step ==
    (macro = "log_time" /\ Len(pairs) >= 2 /\ (pc = "unwound" \/ pc' = "unwound"))
        => stderr' = stderr

C10_NoRollbackNoLaterWork == [][C10_Step]_vars /\ []C10_State

C10_Witness ==
    /\ pc = "unwound" /\ macro = "log_time"
    /\ Len(pairs) = 2
    /\ Panicked = {1}
    /\ Len(stderr) >= 1
    /\ stderr = stderr0
====
